---- MODULE Spec2Model ----
(***************************************************************************)
(* Model of the Linux process manager (src/src/main.rs, parser.rs,         *)
(* proc_reader.rs).  Text is modelled as sequences of one-character        *)
(* strings; the /proc pseudo-files are the environment.                    *)
(***************************************************************************)
EXTENDS Integers, Sequences, FiniteSets, TLC

VARIABLES
    pc,        \* where main is: "prompt", "collect", "sleep", "stats", "exited", "panicked"
    cmd,       \* the Command being executed
    procfs,    \* per pid, the stat, status and io pseudo-files
    entries,   \* the names read_dir("/proc") yields to the running loop
    idx,       \* the entry the loop is at (one-based)
    step,      \* where get_process_metrics is: "stat", "status", "io"
    acc,       \* the values get_process_metrics has bound so far
    out,       \* the ProcessMetrics printed by the running loop
    last,      \* the pid and outcome of the latest get_process_metrics call
    mem,       \* the latest outcome of get_memory_stats
    arg,       \* the input of a function applied on its own
    ret        \* its outcome

prog == <<pc, cmd, procfs, entries, idx, step, acc, out, last, mem>>
vars == <<pc, cmd, procfs, entries, idx, step, acc, out, last, mem, arg, ret>>

\* ------------------------------------------------------------------ bounds
MaxNameLen == 2       \* longest command name drawn for a stat line
MaxArgs == 3          \* most argument tokens drawn after the command word
MaxLines == 3         \* most lines drawn for a status or io record
NumPids == 2          \* processes listed in /proc at the start

\* --------------------------------------------------------- text primitives
IsWhitespace(c) == c \in {" ", "\n", "\t"}

Digits == <<"0", "1", "2", "3", "4", "5", "6", "7", "8", "9">>

IsDigit(c) == \E i \in 1..10 : Digits[i] = c

DigitVal(c) == (CHOOSE i \in 1..10 : Digits[i] = c) - 1

\* the members of a set of positions, in increasing order
Sorted(P) == [k \in 1..Cardinality(P) |-> CHOOSE i \in P : Cardinality({j \in P : j < i}) = k - 1]

\* the last position of the run of non-separators that starts at i
RunEnd(s, seps, i) ==
    LET later == {j \in seps : j > i}
    IN  IF later = {} THEN Len(s) ELSE (CHOOSE j \in later : \A k \in later : j <= k) - 1

\* str::split_whitespace: the maximal runs of non-whitespace characters
split_whitespace(s) ==
    LET seps == {i \in 1..Len(s) : IsWhitespace(s[i])}
        starts == {i \in 1..Len(s) : i \notin seps /\ (i = 1 \/ (i - 1) \in seps)}
        at == Sorted(starts)
    IN  [k \in 1..Cardinality(starts) |-> SubSeq(s, at[k], RunEnd(s, seps, at[k]))]

\* str::lines: the text before each "\n", and the text after the last one
\* unless it is empty
lines(s) ==
    LET seps == {i \in 1..Len(s) : s[i] = "\n"}
        starts == {i \in 1..(Len(s) + 1) : (i = 1 \/ (i - 1) \in seps)
                                            /\ (i <= Len(s) \/ i \in seps)}
        at == Sorted({i \in starts : i <= Len(s)})
    IN  [k \in 1..Len(at) |->
            IF at[k] \in seps THEN <<>> ELSE SubSeq(s, at[k], RunEnd(s, seps, at[k]))]

starts_with(s, p) == Len(s) >= Len(p) /\ SubSeq(s, 1, Len(p)) = p

RECURSIVE TrimStart(_, _)
TrimStart(s, c) == IF s # <<>> /\ Head(s) = c THEN TrimStart(Tail(s), c) ELSE s

RECURSIVE TrimEnd(_, _)
TrimEnd(s, c) ==
    IF s # <<>> /\ s[Len(s)] = c THEN TrimEnd(SubSeq(s, 1, Len(s) - 1), c) ELSE s

\* str::trim_matches(c): strips every leading and every trailing c
trim_matches(s, c) == TrimEnd(TrimStart(s, c), c)

\* str::trim: strips leading and trailing whitespace
RECURSIVE TrimWsStart(_)
TrimWsStart(s) == IF s # <<>> /\ IsWhitespace(Head(s)) THEN TrimWsStart(Tail(s)) ELSE s

RECURSIVE TrimWsEnd(_)
TrimWsEnd(s) ==
    IF s # <<>> /\ IsWhitespace(s[Len(s)]) THEN TrimWsEnd(SubSeq(s, 1, Len(s) - 1)) ELSE s

trim(s) == TrimWsEnd(TrimWsStart(s))

\* str::parse::<u64>/<u32>: the value of a non-empty run of digits, -1 for Err
RECURSIVE DigitsValue(_, _)
DigitsValue(w, n) ==
    IF w = <<>> THEN n ELSE DigitsValue(Tail(w), 10 * n + DigitVal(Head(w)))

parse_u64(w) ==
    IF w # <<>> /\ \A i \in 1..Len(w) : IsDigit(w[i]) THEN DigitsValue(w, 0) ELSE -1

\* Result::unwrap_or(default)
unwrap_or(r, d) == IF r = -1 THEN d ELSE r

\* ------------------------------------------------------ exact arithmetic
\* f64 quantities are modelled as exact fractions <<numerator, denominator>>
\* with a positive denominator, kept in lowest terms.
RECURSIVE GCD(_, _)
GCD(a, b) == IF b = 0 THEN a ELSE GCD(b, a % b)

Abs(x) == IF x < 0 THEN -x ELSE x

Norm(n, d) ==
    LET g == GCD(Abs(n), Abs(d))
        s == IF d < 0 THEN -1 ELSE 1
    IN  IF g = 0 THEN <<0, 1>> ELSE <<s * (n \div g), s * (d \div g)>>

FromInt(n) == <<n, 1>>
FSub(a, b) == Norm(a[1] * b[2] - b[1] * a[2], a[2] * b[2])
FAdd(a, b) == Norm(a[1] * b[2] + b[1] * a[2], a[2] * b[2])
FMul(a, b) == Norm(a[1] * b[1], a[2] * b[2])
FDiv(a, b) == Norm(a[1] * b[2], a[2] * b[1])
FPositive(a) == a[1] > 0

\* f64::round: nearest integer, halves away from zero
FRound(a) ==
    IF a[1] >= 0 THEN (2 * a[1] + a[2]) \div (2 * a[2])
    ELSE -((2 * (-a[1]) + a[2]) \div (2 * a[2]))

RECURSIVE Pow10(_)
Pow10(k) == IF k = 0 THEN 1 ELSE 10 * Pow10(k - 1)

\* str::parse::<f64> for the "<digits>.<digits>" form /proc/uptime uses;
\* <<0, 0>> stands for Err
parse_f64(w) ==
    LET dots == {i \in 1..Len(w) : w[i] = "."}
    IN  IF dots = {} THEN
            (IF parse_u64(w) = -1 THEN <<0, 0>> ELSE FromInt(parse_u64(w)))
        ELSE IF Cardinality(dots) > 1 THEN <<0, 0>>
        ELSE LET p == CHOOSE i \in dots : TRUE
                 ip == SubSeq(w, 1, p - 1)
                 fp == SubSeq(w, p + 1, Len(w))
             IN  IF ip = <<>> \/ fp = <<>> \/ parse_u64(ip) = -1 \/ parse_u64(fp) = -1
                 THEN <<0, 0>>
                 ELSE Norm(parse_u64(ip) * Pow10(Len(fp)) + parse_u64(fp), Pow10(Len(fp)))

\* ------------------------------------------------------------ pseudo-files
\* A read of a pseudo-file either fails with an io::ErrorKind or yields text.
Readable(text) == [err |-> "none", content |-> text]
Unreadable(kind) == [err |-> kind, content |-> <<>>]

\* Outcomes of the fallible functions: Ok(value), Err(kind), or a panic that
\* unwinds through every caller and ends the program.
Ok(v) == [kind |-> "ok", err |-> "none", val |-> v]
Err(e) == [kind |-> "err", err |-> e, val |-> <<>>]
Panic == [kind |-> "panic", err |-> "none", val |-> <<>>]

\* ------------------------------------------------------------ proc_reader
\* percent_cpu with the quotient cut towards zero instead of rounded
percent_cpu_truncating(utime, stime, starttime, ticks_per_sec, uptime) ==
    LET elapsed_seconds == FSub(uptime, FDiv(FromInt(starttime), FromInt(ticks_per_sec)))
        total_cpu_time_seconds ==
            FDiv(FAdd(FromInt(utime), FromInt(stime)), FromInt(ticks_per_sec))
        pct == FMul(FDiv(total_cpu_time_seconds, elapsed_seconds), FromInt(100))
    IN  IF FPositive(elapsed_seconds) THEN pct[1] \div pct[2] ELSE 0

\* lines 50-61 of parse_stat: percent CPU over the process's lifetime
percent_cpu(utime, stime, starttime, ticks_per_sec, uptime) ==
    LET elapsed_seconds == FSub(uptime, FDiv(FromInt(starttime), FromInt(ticks_per_sec)))
        total_cpu_time_seconds ==
            FDiv(FAdd(FromInt(utime), FromInt(stime)), FromInt(ticks_per_sec))
    IN  IF FPositive(elapsed_seconds)
        THEN FRound(FMul(FDiv(total_cpu_time_seconds, elapsed_seconds), FromInt(100)))
        ELSE 0

\* the command name taken from the second whitespace-separated part
comm_of(part) == trim_matches(trim_matches(part, "("), ")")

\* a mandatory numeric field of the stat record
stat_field(part) == unwrap_or(parse_u64(part), 0)

\* parse_stat where the read of the stat record is unwrapped, not propagated
parse_stat_unwrapping(stat, ticks_per_sec, uptimeFile) ==
    IF stat.err # "none" THEN Panic
    ELSE LET parts == split_whitespace(stat.content) IN
         IF Len(parts) < 22 THEN Panic
         ELSE IF uptimeFile.err # "none" THEN Err(uptimeFile.err)
         ELSE LET up == split_whitespace(uptimeFile.content) IN
              IF up = <<>> \/ parse_f64(up[1]) = <<0, 0>> THEN Panic
              ELSE Ok([comm |-> comm_of(parts[2]),
                       cpu  |-> percent_cpu(stat_field(parts[14]), stat_field(parts[15]),
                                            stat_field(parts[22]), ticks_per_sec,
                                            parse_f64(up[1]))])

parse_stat(stat, ticks_per_sec, uptimeFile) ==
    IF stat.err # "none" THEN Err(stat.err)
    ELSE LET parts == split_whitespace(stat.content) IN
         IF Len(parts) < 22 THEN Panic                \* parts[1], [13], [14], [21]
         ELSE IF uptimeFile.err # "none" THEN Err(uptimeFile.err)
         ELSE LET up == split_whitespace(uptimeFile.content) IN
              IF up = <<>> \/ parse_f64(up[1]) = <<0, 0>> THEN Panic   \* unwrap()
              ELSE Ok([comm |-> comm_of(parts[2]),
                       cpu  |-> percent_cpu(stat_field(parts[14]), stat_field(parts[15]),
                                            stat_field(parts[22]), ticks_per_sec,
                                            parse_f64(up[1]))])

\* --------------------------------------------- status and io records
S_VmRSS == <<"V", "m", "R", "S", "S", ":">>
S_read_bytes == <<"r", "e", "a", "d", "_", "b", "y", "t", "e", "s", ":">>
S_write_bytes == <<"w", "r", "i", "t", "e", "_", "b", "y", "t", "e", "s", ":">>

\* the second whitespace-separated part of a "key: value" line, as a number
line_value(line) ==
    LET parts == split_whitespace(line)
    IN  IF Len(parts) < 2 THEN Panic ELSE Ok(unwrap_or(parse_u64(parts[2]), 0))

RECURSIVE status_scan(_)
status_scan(ls) ==
    IF ls = <<>> THEN Ok(0)
    ELSE IF starts_with(Head(ls), S_VmRSS) THEN line_value(Head(ls))
    ELSE status_scan(Tail(ls))

parse_status(status) ==
    IF status.err # "none" THEN Err(status.err) ELSE status_scan(lines(status.content))

RECURSIVE io_scan(_, _, _)
io_scan(ls, read_bytes, write_bytes) ==
    IF ls = <<>> THEN Ok([read |-> read_bytes, write |-> write_bytes])
    ELSE IF starts_with(Head(ls), S_read_bytes) THEN
             (IF line_value(Head(ls)).kind = "panic" THEN Panic
              ELSE io_scan(Tail(ls), line_value(Head(ls)).val, write_bytes))
    ELSE IF starts_with(Head(ls), S_write_bytes) THEN
             (IF line_value(Head(ls)).kind = "panic" THEN Panic
              ELSE io_scan(Tail(ls), read_bytes, line_value(Head(ls)).val))
    ELSE io_scan(Tail(ls), read_bytes, write_bytes)

\* io_scan where the write_bytes: branch stores into read_bytes
RECURSIVE io_scan_pasted(_, _, _)
io_scan_pasted(ls, read_bytes, write_bytes) ==
    IF ls = <<>> THEN Ok([read |-> read_bytes, write |-> write_bytes])
    ELSE IF starts_with(Head(ls), S_read_bytes) \/ starts_with(Head(ls), S_write_bytes) THEN
             (IF line_value(Head(ls)).kind = "panic" THEN Panic
              ELSE io_scan_pasted(Tail(ls), line_value(Head(ls)).val, write_bytes))
    ELSE io_scan_pasted(Tail(ls), read_bytes, write_bytes)

parse_io_pasted(io) ==
    IF io.err # "none" THEN Err(io.err) ELSE io_scan_pasted(lines(io.content), 0, 0)

parse_io(io) ==
    IF io.err # "none" THEN Err(io.err) ELSE io_scan(lines(io.content), 0, 0)

\* ------------------------------------------------------- get_memory_stats
S_MemTotal == <<"M", "e", "m", "T", "o", "t", "a", "l", ":">>
S_MemFree == <<"M", "e", "m", "F", "r", "e", "e", ":">>
S_Buffers == <<"B", "u", "f", "f", "e", "r", "s", ":">>
S_Cached == <<"C", "a", "c", "h", "e", "d", ":">>

\* line.split_whitespace().nth(1).unwrap().parse::<u64>().unwrap()
mem_field(line) ==
    LET parts == split_whitespace(line)
    IN  IF Len(parts) < 2 \/ parse_u64(parts[2]) = -1 THEN Panic ELSE Ok(parse_u64(parts[2]))

RECURSIVE memory_scan(_, _)
memory_scan(ls, m) ==
    IF ls = <<>> THEN Ok(m)
    ELSE LET line == Head(ls)
             key == IF starts_with(line, S_MemTotal) THEN "total"
                    ELSE IF starts_with(line, S_MemFree) THEN "free"
                    ELSE IF starts_with(line, S_Buffers) THEN "buffers"
                    ELSE IF starts_with(line, S_Cached) THEN "cached"
                    ELSE "none"
         IN  IF key = "none" THEN memory_scan(Tail(ls), m)
             ELSE IF mem_field(line).kind = "panic" THEN Panic
             ELSE memory_scan(Tail(ls), [m EXCEPT ![key] = mem_field(line).val])

\* A u64 number of megabytes is the pair <<hi, lo>> standing for
\* hi * 2^54 + lo: a u64 difference d < 0 that wraps is 2^64 + d, and
\* (2^64 + d) / 1024 = 2^54 + floor(d / 1024).
Megabytes(kb) == <<IF kb < 0 THEN 1 ELSE 0, kb \div 1024>>

\* The outcomes of get_memory_stats: the subtraction in line 36 overflows
\* when free + buffers + cached > total, which panics in a build with
\* overflow checks and wraps in a build without.
get_memory_stats(meminfo) ==
    IF meminfo.err # "none" THEN {Panic}
    ELSE LET r == memory_scan(lines(meminfo.content),
                              [total |-> 0, free |-> 0, buffers |-> 0, cached |-> 0])
         IN  IF r.kind = "panic" THEN {Panic}
             ELSE LET used == r.val.total - r.val.free - r.val.buffers - r.val.cached
                      result == Ok([total_mb |-> Megabytes(r.val.total),
                                    used_mb |-> Megabytes(used)])
                  IN  IF used >= 0 THEN {result} ELSE {Panic, result}

\* ----------------------------------------------------------------- parser
UpperCase == <<"A", "B", "C", "D", "E", "F", "G", "H", "I", "J", "K", "L", "M",
               "N", "O", "P", "Q", "R", "S", "T", "U", "V", "W", "X", "Y", "Z">>
LowerCase == <<"a", "b", "c", "d", "e", "f", "g", "h", "i", "j", "k", "l", "m",
               "n", "o", "p", "q", "r", "s", "t", "u", "v", "w", "x", "y", "z">>

to_lowercase(w) ==
    [i \in 1..Len(w) |->
        IF \E k \in 1..26 : UpperCase[k] = w[i]
        THEN LowerCase[CHOOSE k \in 1..26 : UpperCase[k] = w[i]]
        ELSE w[i]]

W_ps == <<"p", "s">>
W_list == <<"l", "i", "s", "t">>
W_kill == <<"k", "i", "l", "l">>
W_info == <<"i", "n", "f", "o">>
W_show == <<"s", "h", "o", "w">>
W_stats == <<"s", "t", "a", "t", "s">>
W_status == <<"s", "t", "a", "t", "u", "s">>
W_search == <<"s", "e", "a", "r", "c", "h">>
W_find == <<"f", "i", "n", "d">>
W_monitor == <<"m", "o", "n", "i", "t", "o", "r">>
W_help == <<"h", "e", "l", "p">>
W_exit == <<"e", "x", "i", "t">>
W_quit == <<"q", "u", "i", "t">>
F_a == <<"-", "a">>
F_all == <<"-", "-", "a", "l", "l">>
F_u == <<"-", "u">>
F_user == <<"-", "-", "u", "s", "e", "r">>
F_s == <<"-", "s">>
F_sort == <<"-", "-", "s", "o", "r", "t">>
F_d == <<"-", "d">>
F_detailed == <<"-", "-", "d", "e", "t", "a", "i", "l", "e", "d">>
F_e == <<"-", "e">>
F_exact == <<"-", "-", "e", "x", "a", "c", "t">>
F_refresh == <<"-", "-", "r", "e", "f", "r", "e", "s", "h">>
F_refresh_eq == F_refresh \o <<"=">>

\* Option: None is the empty sequence, Some(x) the one-element sequence
None == <<>>
Some(x) == <<x>>

\* the Command enum as one record shape; fields a variant lacks keep these
NoCommand ==
    [cmd |-> "Help", all |-> FALSE, user |-> None, sort_by |-> None, pid |-> 0,
     signal |-> None, detailed |-> FALSE, refresh_interval |-> None, name |-> <<>>,
     exact |-> FALSE, interval |-> 0, text |-> <<>>, why |-> "none"]

Unknown(why, text) == [NoCommand EXCEPT !.cmd = "Unknown", !.why = why, !.text = text]

\* the while loop of parse_list_command, from index i (one-based)
RECURSIVE list_scan(_, _, _, _, _)
list_scan(args, i, all, user, sort_by) ==
    IF i > Len(args) THEN
        [NoCommand EXCEPT !.cmd = "ListProcesses", !.all = all, !.user = user,
                          !.sort_by = sort_by]
    ELSE IF args[i] \in {F_a, F_all} THEN list_scan(args, i + 1, TRUE, user, sort_by)
    ELSE IF args[i] \in {F_u, F_user} THEN
        (IF i + 1 <= Len(args) THEN list_scan(args, i + 2, all, Some(args[i + 1]), sort_by)
         ELSE list_scan(args, i + 1, all, user, sort_by))
    ELSE IF args[i] \in {F_s, F_sort} THEN
        (IF i + 1 <= Len(args) THEN list_scan(args, i + 2, all, user, Some(args[i + 1]))
         ELSE list_scan(args, i + 1, all, user, sort_by))
    ELSE list_scan(args, i + 1, all, user, sort_by)

\* list_scan where a value flag does not consume the token after it
RECURSIVE list_scan_no_skip(_, _, _, _, _)
list_scan_no_skip(args, i, all, user, sort_by) ==
    IF i > Len(args) THEN
        [NoCommand EXCEPT !.cmd = "ListProcesses", !.all = all, !.user = user,
                          !.sort_by = sort_by]
    ELSE IF args[i] \in {F_a, F_all} THEN list_scan_no_skip(args, i + 1, TRUE, user, sort_by)
    ELSE IF args[i] \in {F_u, F_user} /\ i + 1 <= Len(args)
        THEN list_scan_no_skip(args, i + 1, all, Some(args[i + 1]), sort_by)
    ELSE IF args[i] \in {F_s, F_sort} /\ i + 1 <= Len(args)
        THEN list_scan_no_skip(args, i + 1, all, user, Some(args[i + 1]))
    ELSE list_scan_no_skip(args, i + 1, all, user, sort_by)

parse_list_command_no_skip(args) == list_scan_no_skip(args, 1, FALSE, None, None)

parse_list_command(args) == list_scan(args, 1, FALSE, None, None)

parse_kill_command(args) ==
    IF args = <<>> THEN Unknown("kill: missing PID", <<>>)
    ELSE IF parse_u64(args[1]) = -1 THEN Unknown("kill: invalid PID", args[1])
    ELSE [NoCommand EXCEPT !.cmd = "KillProcess", !.pid = parse_u64(args[1]),
                           !.signal = IF Len(args) > 1 THEN Some(args[2]) ELSE None]

parse_info_command(args) ==
    IF args = <<>> THEN Unknown("info: missing PID", <<>>)
    ELSE IF parse_u64(args[1]) = -1 THEN Unknown("info: invalid PID", args[1])
    ELSE [NoCommand EXCEPT !.cmd = "ProcessInfo", !.pid = parse_u64(args[1]),
                           !.detailed = \E i \in 1..Len(args) : args[i] \in {F_d, F_detailed}]

\* the for loop of parse_stats_command, from index i (one-based)
RECURSIVE stats_scan(_, _, _)
stats_scan(args, i, refresh_interval) ==
    IF i > Len(args) THEN refresh_interval
    ELSE IF starts_with(args[i], F_refresh_eq) THEN
        LET num == parse_u64(SubSeq(args[i], Len(F_refresh_eq) + 1, Len(args[i])))
        IN  stats_scan(args, i + 1, IF num # -1 THEN Some(num) ELSE refresh_interval)
    ELSE IF args[i] = F_refresh /\ i + 1 <= Len(args) /\ parse_u64(args[i + 1]) # -1
        THEN stats_scan(args, i + 1, Some(parse_u64(args[i + 1])))
    ELSE stats_scan(args, i + 1, refresh_interval)

parse_stats_command(args) ==
    [NoCommand EXCEPT !.cmd = "SystemStats", !.refresh_interval = stats_scan(args, 1, None)]

parse_search_command(args) ==
    IF args = <<>> THEN Unknown("search: missing process name", <<>>)
    ELSE [NoCommand EXCEPT !.cmd = "SearchProcess", !.name = args[1],
                           !.exact = \E i \in 1..Len(args) : args[i] \in {F_e, F_exact}]

\* CommandParser::parse
parse(input) ==
    LET trimmed == trim(input)
        parts == split_whitespace(trimmed)
        command == to_lowercase(parts[1])
        args == Tail(parts)
    IN  IF trimmed = <<>> THEN NoCommand
        ELSE IF command \in {W_ps, W_list} THEN parse_list_command(args)
        ELSE IF command = W_kill THEN parse_kill_command(args)
        ELSE IF command \in {W_info, W_show} THEN parse_info_command(args)
        ELSE IF command \in {W_stats, W_status} THEN parse_stats_command(args)
        ELSE IF command \in {W_search, W_find} THEN parse_search_command(args)
        ELSE IF command = W_monitor THEN
            [NoCommand EXCEPT !.cmd = "Monitor",
                              !.interval = IF args # <<>> THEN unwrap_or(parse_u64(args[1]), 2)
                                           ELSE 2]
        ELSE IF command = W_help THEN NoCommand
        ELSE IF command \in {W_exit, W_quit} THEN [NoCommand EXCEPT !.cmd = "Exit"]
        ELSE Unknown("input", trimmed)

\* ---------------------------------------------------------------- helpers
\* the words joined by one separator character
RECURSIVE Join(_, _)
Join(ws, sep) ==
    IF ws = <<>> THEN <<>>
    ELSE IF Len(ws) = 1 THEN ws[1]
    ELSE ws[1] \o <<sep>> \o Join(Tail(ws), sep)

\* the decimal digits of a natural number (Display for integers)
RECURSIVE ToDigits(_)
ToDigits(n) == IF n < 10 THEN <<Digits[n + 1]>> ELSE Append(ToDigits(n \div 10), Digits[(n % 10) + 1])

\* every sequence over S of at most n members
RECURSIVE SeqsUpTo(_, _)
SeqsUpTo(S, n) ==
    IF n = 0 THEN {<<>>}
    ELSE LET shorter == SeqsUpTo(S, n - 1)
         IN  shorter \cup {Append(s, c) : s \in {t \in shorter : Len(t) = n - 1}, c \in S}

\* no function applied yet, no outcome yet
NoCall == [fn |-> "none"]

\* ------------------------------------------------------------------- main
\* the ticks per second sysconf(_SC_CLK_TCK) reports, and /proc/uptime
HostTicksPerSec == 100
HostUptime == Readable(<<"2", "0", ".", "0", "0", " ", "9", ".", "0", "0", "\n">>)

\* /proc/meminfo of the host
HostMeminfo ==
    Readable(S_MemTotal \o <<" ", "2", "0", "4", "8", " ", "k", "B", "\n">>
             \o S_MemFree \o <<" ", "1", "0", "2", "4", " ", "k", "B", "\n">>
             \o S_Buffers \o <<" ", "0", " ", "k", "B", "\n">>
             \o S_Cached \o <<" ", "0", " ", "k", "B", "\n">>)

Gone == [stat |-> Unreadable("NotFound"), status |-> Unreadable("NotFound"),
         io |-> Unreadable("NotFound")]

\* the pseudo-files of pid p; a pid with no directory has none
FilesOf(p) == IF p \in DOMAIN procfs THEN procfs[p] ELSE Gone

Listed(p) == FilesOf(p) # Gone

\* read_dir("/proc"): the directories of the live pids, then a non-numeric entry
read_dir ==
    LET live == {p \in DOMAIN procfs : Listed(p)}
        at == Sorted(live)
    IN  [k \in 1..Cardinality(live) |-> ToDigits(at[k])] \o << <<"s", "e", "l", "f">> >>

NoMetrics ==
    [pid |-> 0, comm |-> <<>>, user |-> "user", cpu_time |-> 0, mem_usage |-> 0,
     io_read_bytes |-> 0, io_write_bytes |-> 0]

\* the state main starts in, before any pseudo-file is read
ProgramIdle ==
    /\ pc = "prompt" /\ cmd = NoCommand /\ procfs = <<>>
    /\ entries = <<>> /\ idx = 1 /\ step = "stat" /\ acc = NoMetrics /\ out = <<>>
    /\ last = NoCall /\ mem = NoCall

\* a loop over directory entries begins
StartLoop(c) ==
    /\ cmd' = c /\ pc' = "collect"
    /\ entries' = read_dir /\ idx' = 1 /\ step' = "stat" /\ acc' = NoMetrics /\ out' = <<>>
    /\ UNCHANGED <<procfs, last, mem, arg, ret>>

\* main reads a line that parses to ListProcesses
DoListProcesses(line) ==
    /\ pc = "prompt" /\ parse(line).cmd = "ListProcesses"
    /\ StartLoop(parse(line))

\* main reads a line that parses to Monitor and calls monitor_processes
DoMonitor(line) ==
    /\ pc = "prompt" /\ parse(line).cmd = "Monitor"
    /\ StartLoop(parse(line))

\* main reads a line that parses to ProcessInfo: one get_process_metrics call
DoProcessInfo(line) ==
    /\ pc = "prompt" /\ parse(line).cmd = "ProcessInfo"
    /\ cmd' = parse(line) /\ pc' = "collect"
    /\ entries' = <<ToDigits(parse(line).pid)>> /\ idx' = 1 /\ step' = "stat"
    /\ acc' = NoMetrics /\ out' = <<>>
    /\ UNCHANGED <<procfs, last, mem, arg, ret>>

\* main reads a line that parses to SystemStats
DoSystemStats(line) ==
    /\ pc = "prompt" /\ parse(line).cmd = "SystemStats"
    /\ cmd' = parse(line)
    /\ \E r \in get_memory_stats(HostMeminfo) :
          /\ mem' = r
          /\ pc' = IF r.kind = "panic" THEN "panicked"
                   ELSE IF parse(line).refresh_interval # None
                           /\ parse(line).refresh_interval[1] > 0 THEN "stats"
                   ELSE "prompt"
    /\ UNCHANGED <<procfs, entries, idx, step, acc, out, last, arg, ret>>

\* the refresh loop of SystemStats wakes and samples again
StatsRefresh ==
    /\ pc = "stats"
    /\ \E r \in get_memory_stats(HostMeminfo) :
          mem' = r /\ pc' = IF r.kind = "panic" THEN "panicked" ELSE "stats"
    /\ UNCHANGED <<cmd, procfs, entries, idx, step, acc, out, last, arg, ret>>

\* main reads a line that parses to KillProcess, SearchProcess, Help or
\* Unknown: it prints and prompts again
DoPrintOnly(line) ==
    /\ pc = "prompt"
    /\ parse(line).cmd \in {"KillProcess", "SearchProcess", "Help", "Unknown"}
    /\ cmd' = parse(line)
    /\ UNCHANGED <<pc, procfs, entries, idx, step, acc, out, last, mem, arg, ret>>

\* main reads a line that parses to Exit and leaves its loop
DoExit(line) ==
    /\ pc = "prompt" /\ parse(line).cmd = "Exit"
    /\ cmd' = parse(line) /\ pc' = "exited"
    /\ UNCHANGED <<procfs, entries, idx, step, acc, out, last, mem, arg, ret>>

InLoop == pc = "collect" /\ idx <= Len(entries)

\* a get_process_metrics call ends with Err or a panic at the given place
Fails(pid, place, r) ==
    /\ last' = [fn |-> "get_process_metrics", pid |-> pid, at |-> place, res |-> r]
    /\ pc' = IF r.kind = "panic" THEN "panicked" ELSE "collect"
    /\ idx' = IF r.kind = "panic" THEN idx ELSE idx + 1
    /\ step' = "stat" /\ acc' = NoMetrics
    /\ UNCHANGED out

\* an entry whose name is not a pid is passed over
SkipEntry ==
    /\ InLoop /\ step = "stat" /\ parse_u64(entries[idx]) = -1
    /\ idx' = idx + 1
    /\ UNCHANGED <<pc, cmd, procfs, entries, step, acc, out, last, mem, arg, ret>>

\* get_process_metrics, line 99: parse_stat(pid)?
StatStep ==
    /\ InLoop /\ step = "stat" /\ parse_u64(entries[idx]) # -1
    /\ LET pid == parse_u64(entries[idx])
           r == parse_stat(FilesOf(pid).stat, HostTicksPerSec, HostUptime)
       IN  IF r.kind = "ok"
           THEN /\ acc' = [NoMetrics EXCEPT !.pid = pid, !.comm = r.val.comm,
                                            !.cpu_time = r.val.cpu]
                /\ step' = "status"
                /\ UNCHANGED <<pc, idx, out, last>>
           ELSE Fails(pid, "stat", r)
    /\ UNCHANGED <<cmd, procfs, entries, mem, arg, ret>>

\* get_process_metrics, line 100: parse_status(pid)?
StatusStep ==
    /\ InLoop /\ step = "status"
    /\ LET r == parse_status(FilesOf(acc.pid).status)
       IN  IF r.kind = "ok"
           THEN /\ acc' = [acc EXCEPT !.mem_usage = r.val]
                /\ step' = "io"
                /\ UNCHANGED <<pc, idx, out, last>>
           ELSE Fails(acc.pid, "status", r)
    /\ UNCHANGED <<cmd, procfs, entries, mem, arg, ret>>

\* get_process_metrics, lines 101-114: parse_io(pid)?, then Ok(ProcessMetrics),
\* which the caller prints
IoStep ==
    /\ InLoop /\ step = "io"
    /\ LET r == parse_io(FilesOf(acc.pid).io)
       IN  IF r.kind = "ok"
           THEN LET metrics == [acc EXCEPT !.io_read_bytes = r.val.read,
                                           !.io_write_bytes = r.val.write]
                IN  /\ last' = [fn |-> "get_process_metrics", pid |-> acc.pid,
                                at |-> "end", res |-> Ok(metrics)]
                    /\ out' = Append(out, metrics)
                    /\ idx' = idx + 1 /\ step' = "stat" /\ acc' = NoMetrics
                    /\ UNCHANGED pc
           ELSE Fails(acc.pid, "io", r)
    /\ UNCHANGED <<cmd, procfs, entries, mem, arg, ret>>

\* the for loop is over: monitor_processes sleeps, the other commands return
\* to the prompt
EndLoop ==
    /\ pc = "collect" /\ idx > Len(entries)
    /\ pc' = IF cmd.cmd = "Monitor" THEN "sleep" ELSE "prompt"
    /\ UNCHANGED <<cmd, procfs, entries, idx, step, acc, out, last, mem, arg, ret>>

\* thread::sleep returns and monitor_processes starts its next pass
Wake ==
    /\ pc = "sleep"
    /\ StartLoop(cmd)

\* a process exits: its directory and pseudo-files are gone
ProcessExit(p) ==
    /\ pc \notin {"exited", "panicked"}
    /\ Listed(p)
    /\ procfs' = [procfs EXCEPT ![p] = Gone]
    /\ UNCHANGED <<pc, cmd, entries, idx, step, acc, out, last, mem, arg, ret>>

\* ------------------------------------------------ environment: stat lines
\* the fields of a stat line after the command name (zero-based indices
\* 2..23), with the three the program reads given
StatFields(ut, st, start) ==
    [i \in 1..22 |-> IF i = 1 THEN <<"S">>
                     ELSE IF i = 12 THEN ut
                     ELSE IF i = 13 THEN st
                     ELSE IF i = 20 THEN start
                     ELSE <<"0">>]

\* "pid (name) field field ...\n", cut to its first nfields fields after the name
StatLine(name, ut, st, start, nfields) ==
    <<"7", " ", "(">> \o name \o <<")", " ">>
        \o Join(SubSeq(StatFields(ut, st, start), 1, nfields), " ") \o <<"\n">>

NameChars == {"a", "b", " ", "(", ")"}

Names == SeqsUpTo(NameChars, MaxNameLen) \ {<<>>}

TickTokens == {<<"0">>, <<"1">>, <<"5", "0">>, <<"1", "0", "0">>, <<"x">>}
StartTokens == {<<"0">>, <<"1", "0", "0", "0">>, <<"3", "0", "0", "0">>, <<"-">>}
UptimeTokens == {<<"2", "0", ".", "0", "0">>, <<"1", "0", ".", "0", "0">>,
                 <<"1", "2", ".", "5", "0">>}
TicksPerSecChoices == {1, 100}
FieldCounts == {0, 11, 19, 22}

UptimeFile(tok) == Readable(tok \o <<" ", "9", ".", "0", "0", "\n">>)

\* the stat inputs: every name with the usual fields, and the usual name
\* with every combination of fields
StatInputs ==
    {[fn |-> "parse_stat", name |-> n, ut |-> <<"1", "0", "0">>, st |-> <<"5", "0">>,
      start |-> <<"1", "0", "0", "0">>, nfields |-> 22, tps |-> 100,
      uptime |-> <<"2", "0", ".", "0", "0">>] : n \in Names}
    \cup
    {[fn |-> "parse_stat", name |-> <<"a">>, ut |-> u, st |-> s, start |-> b,
      nfields |-> k, tps |-> t, uptime |-> up] :
        u \in TickTokens, s \in TickTokens, b \in StartTokens, k \in FieldCounts,
        t \in TicksPerSecChoices, up \in UptimeTokens}

InitStat == ProgramIdle /\ arg \in StatInputs /\ ret = NoCall

CallParseStat ==
    /\ arg.fn = "parse_stat" /\ ret = NoCall
    /\ ret' = parse_stat(Readable(StatLine(arg.name, arg.ut, arg.st, arg.start, arg.nfields)),
                         arg.tps, UptimeFile(arg.uptime))
    /\ UNCHANGED <<arg, prog>>

NextStat == CallParseStat

SpecStat == InitStat /\ [][NextStat]_vars

\* ------------------------------------- environment: status and io lines
\* Each line the kernel may print, with what it says: which counter it is
\* (key) and its number (num; -1 when the value is not a number, -2 when the
\* line carries no value at all).
StatusLines ==
    { [key |-> "other", num |-> 0, text |-> <<"N", "a", "m", "e", ":", "\t", "a">>],
      [key |-> "VmRSS", num |-> 512,
       text |-> S_VmRSS \o <<"\t", " ", "5", "1", "2", " ", "k", "B">>],
      [key |-> "VmRSS", num |-> 7, text |-> S_VmRSS \o <<" ", "7", " ", "k", "B">>],
      [key |-> "VmRSS", num |-> -1, text |-> S_VmRSS \o <<" ", "x", " ", "k", "B">>],
      [key |-> "VmRSS", num |-> -2, text |-> S_VmRSS],
      [key |-> "other", num |-> 9,
       text |-> <<"V", "m", "H", "W", "M", ":", " ", "9", " ", "k", "B">>] }

IoLines ==
    { [key |-> "other", num |-> 5, text |-> <<"r", "c", "h", "a", "r", ":", " ", "5">>],
      [key |-> "read", num |-> 4096, text |-> S_read_bytes \o <<" ", "4", "0", "9", "6">>],
      [key |-> "write", num |-> 8192, text |-> S_write_bytes \o <<" ", "8", "1", "9", "2">>],
      [key |-> "write", num |-> 3, text |-> S_write_bytes \o <<" ", "3">>],
      [key |-> "write", num |-> -1, text |-> S_write_bytes \o <<" ", "x">>],
      [key |-> "read", num |-> -2, text |-> S_read_bytes],
      [key |-> "other", num |-> 6,
       text |-> <<"c", "a", "n", "c", "e", "l", "l", "e", "d", "_">> \o S_write_bytes
                    \o <<" ", "6">>] }

\* the text of a record: its lines, each ended by "\n"
RECURSIVE FileText(_)
FileText(ls) == IF ls = <<>> THEN <<>> ELSE Head(ls).text \o <<"\n">> \o FileText(Tail(ls))

ReadErrors == {"NotFound", "PermissionDenied"}

StatusIoInputs ==
    {[fn |-> "parse_status", err |-> "none", recs |-> r] : r \in SeqsUpTo(StatusLines, MaxLines)}
    \cup {[fn |-> "parse_io", err |-> "none", recs |-> r] : r \in SeqsUpTo(IoLines, MaxLines)}
    \cup {[fn |-> f, err |-> e, recs |-> <<>>] : f \in {"parse_status", "parse_io"},
                                                  e \in ReadErrors}

RecordFile(a) == IF a.err = "none" THEN Readable(FileText(a.recs)) ELSE Unreadable(a.err)

InitStatusIo == ProgramIdle /\ arg \in StatusIoInputs /\ ret = NoCall

CallParseStatus ==
    /\ arg.fn = "parse_status" /\ ret = NoCall
    /\ ret' = parse_status(RecordFile(arg))
    /\ UNCHANGED <<arg, prog>>

CallParseIo ==
    /\ arg.fn = "parse_io" /\ ret = NoCall
    /\ ret' = parse_io(RecordFile(arg))
    /\ UNCHANGED <<arg, prog>>

NextStatusIo == CallParseStatus \/ CallParseIo

SpecStatusIo == InitStatusIo /\ [][NextStatusIo]_vars

\* ----------------------------------------------- environment: meminfo
MemLine(key, n) == key \o <<" ", " ">> \o ToDigits(n) \o <<" ", "k", "B", "\n">>

S_MemAvailable == <<"M", "e", "m", "A", "v", "a", "i", "l", "a", "b", "l", "e", ":">>
S_SwapCached == <<"S", "w", "a", "p", "C", "a", "c", "h", "e", "d", ":">>

MemInfoText(a) ==
    MemLine(S_MemTotal, a.total) \o MemLine(S_MemFree, a.free)
      \o (IF a.extra = "MemAvailable" THEN MemLine(S_MemAvailable, 77) ELSE <<>>)
      \o MemLine(S_Buffers, a.buffers) \o MemLine(S_Cached, a.cached)
      \o (IF a.extra = "SwapCached" THEN MemLine(S_SwapCached, 55) ELSE <<>>)

MemInputs ==
    [fn : {"get_memory_stats"}, total : {2048000, 1000}, free : {512000, 2000, 0},
     buffers : {100000, 0}, cached : {400000, 1023, 0},
     extra : {"none", "MemAvailable", "SwapCached"}]

InitMem == ProgramIdle /\ arg \in MemInputs /\ ret = NoCall

CallGetMemoryStats ==
    /\ arg.fn = "get_memory_stats" /\ ret = NoCall
    /\ ret' \in get_memory_stats(Readable(MemInfoText(arg)))
    /\ UNCHANGED <<arg, prog>>

NextMem == CallGetMemoryStats

SpecMem == InitMem /\ [][NextMem]_vars

\* C7: for a meminfo giving MemTotal, MemFree, Buffers and Cached,
\* get_memory_stats does not fail and returns total_mb = floor(MemTotal / 1024)
\* and used_mb = floor((MemTotal - MemFree - Buffers - Cached) / 1024).
C7_MemoryStats ==
    ret # NoCall =>
        /\ ret.kind = "ok"
        /\ ret.val.total_mb = <<0, arg.total \div 1024>>
        /\ ret.val.used_mb = <<0, (arg.total - arg.free - arg.buffers - arg.cached) \div 1024>>

\* the spec's example: 2048000, 512000, 100000, 400000 give 2000 MB and 1011 MB
C7_Example ==
    (/\ ret # NoCall
     /\ arg.total = 2048000 /\ arg.free = 512000
     /\ arg.buffers = 100000 /\ arg.cached = 400000)
    => (ret.kind = "ok" /\ ret.val.total_mb = <<0, 2000>> /\ ret.val.used_mb = <<0, 1011>>)

\* ------------------------------------------- environment: typed lines
V_root == <<"r", "o", "o", "t">>
V_cpu == <<"c", "p", "u">>

ListWords == {W_ps, <<"P", "S">>, W_list, <<"L", "i", "s", "T">>}
ListTokens == {F_a, F_all, F_u, F_user, F_s, F_sort, V_root, V_cpu, <<"-", "A">>}

\* the line read_line returns: the words, single-spaced, and the newline
TypedLine(words) == Join(words, " ") \o <<"\n">>

OtherLines ==
    { <<W_ps, F_a, F_u, V_root, F_sort, V_cpu>>,
      <<W_kill>>, <<W_kill, <<"1">>>>, <<W_kill, <<"2">>, <<"S", "I", "G", "K", "I", "L", "L">>>>,
      <<W_kill, <<"x">>>>, <<W_info>>, <<W_show, <<"1">>, F_d>>, <<W_info, V_cpu>>,
      <<W_stats>>, <<W_status, F_refresh, <<"2">>>>, <<W_stats, F_refresh_eq \o <<"3">>>>,
      <<W_search>>, <<W_find, <<"a">>, F_exact>>, <<W_monitor>>, <<W_monitor, <<"5">>>>,
      <<<<"M", "o", "n", "i", "t", "o", "r">>, <<"x">>>>, <<W_help>>, <<W_exit>>, <<W_quit>>,
      <<V_cpu, V_root>>, <<>> }

ParserInputs ==
    {[fn |-> "parse", words |-> <<w>> \o a] : w \in ListWords, a \in SeqsUpTo(ListTokens, MaxArgs)}
    \cup {[fn |-> "parse", words |-> l] : l \in OtherLines}

InitParser == ProgramIdle /\ arg \in ParserInputs /\ ret = NoCall

CallParse ==
    /\ arg.fn = "parse" /\ ret = NoCall
    /\ ret' = parse(TypedLine(arg.words))
    /\ UNCHANGED <<arg, prog>>

NextParser == CallParse

SpecParser == InitParser /\ [][NextParser]_vars

\* ------------------------------------------------ properties: parse_stat
TheStatLine == StatLine(arg.name, arg.ut, arg.st, arg.start, arg.nfields)

\* the text between the first "(" and the last ")" of a line
BetweenParens(line) ==
    LET opens == {i \in 1..Len(line) : line[i] = "("}
        closes == {i \in 1..Len(line) : line[i] = ")"}
        firstOpen == CHOOSE i \in opens : \A j \in opens : i <= j
        lastClose == CHOOSE i \in closes : \A j \in closes : j <= i
    IN  SubSeq(line, firstOpen + 1, lastClose - 1)

PlainName == \A i \in 1..Len(arg.name) : arg.name[i] \notin {" ", "(", ")"}

\* C3: a stat record whose user-ticks, kernel-ticks or start-ticks field is
\* present but not a number makes the collection fail with Malformed; no
\* value is produced from it.
C3_MalformedReported ==
    (/\ ret # NoCall
     /\ PlainName /\ arg.nfields = 22
     /\ (parse_u64(arg.ut) = -1 \/ parse_u64(arg.st) = -1 \/ parse_u64(arg.start) = -1))
    => (ret.kind = "err" /\ ret.err = "Malformed")

\* C4: the command name returned for a stat line is exactly the text
\* between the line's first "(" and its last ")".
C4_CommBetweenParens ==
    (ret # NoCall /\ ret.kind = "ok") => ret.val.comm = BetweenParens(TheStatLine)

\* the uptime token "ss.cc" in hundredths of a second
UptimeCenti(tok) == parse_u64(SelectSeq(tok, LAMBDA c : c # "."))

NumericTicks ==
    /\ PlainName /\ arg.nfields = 22
    /\ parse_u64(arg.ut) # -1 /\ parse_u64(arg.st) # -1 /\ parse_u64(arg.start) # -1

\* elapsed = uptime - start/tps = ElapsedNum / (100 * tps)
ElapsedNum == UptimeCenti(arg.uptime) * arg.tps - 100 * parse_u64(arg.start)

\* 100 * (user + kernel) / tps / elapsed = CpuNum / ElapsedNum
CpuNum == 10000 * (parse_u64(arg.ut) + parse_u64(arg.st))

HasKey(k) == \E i \in 1..Len(arg.recs) : arg.recs[i].key = k

\* the number on the last line of counter k
LastNum(k) ==
    LET at == {i \in 1..Len(arg.recs) : arg.recs[i].key = k}
    IN  arg.recs[CHOOSE i \in at : \A j \in at : j <= i].num

\* every line of a counter the program reads carries a value
EveryLineHasValue ==
    \A i \in 1..Len(arg.recs) : arg.recs[i].key # "other" => arg.recs[i].num # -2

\* C8: for a readable status record without a VmRSS: line, mem_usage is
\* Ok(0); for a readable io record, a counter whose line is absent is 0 and
\* the other counter keeps the number of its own line; neither is an error.
C8_AbsentLineIsZero ==
    (ret # NoCall /\ arg.err = "none" /\ EveryLineHasValue) =>
        /\ (arg.fn = "parse_status" /\ ~HasKey("VmRSS")) =>
              (ret.kind = "ok" /\ ret.val = 0)
        /\ arg.fn = "parse_io" =>
              /\ ret.kind = "ok"
              /\ ~HasKey("read") => ret.val.read = 0
              /\ ~HasKey("write") => ret.val.write = 0
              /\ (HasKey("read") /\ LastNum("read") >= 0) => ret.val.read = LastNum("read")
              /\ (HasKey("write") /\ LastNum("write") >= 0) => ret.val.write = LastNum("write")

\* an io record with a write_bytes: line and no read_bytes: line, parsed
C8_Witness ==
    /\ ret # NoCall /\ arg.fn = "parse_io" /\ arg.err = "none"
    /\ ~HasKey("read") /\ HasKey("write") /\ LastNum("write") = 8192
    /\ ret.kind = "ok" /\ ret.val.read = 0 /\ ret.val.write = 8192

\* --------------------------------------------------- properties: parser
TypedArgs == Tail(arg.words)

ValueFlags == {F_u, F_user, F_s, F_sort}

\* the number of value flags in a row just before position i
FlagRun(i) ==
    CHOOSE k \in 0..(i - 1) :
        /\ \A j \in (i - k)..(i - 1) : TypedArgs[j] \in ValueFlags
        /\ (k = i - 1 \/ TypedArgs[i - k - 1] \notin ValueFlags)

\* position i holds the value of the flag before it, not a flag of its own
IsValue(i) == FlagRun(i) % 2 = 1

\* the positions where one of the flags fs is given and followed by a token
GivenWithValue(fs) ==
    {i \in 1..(Len(TypedArgs) - 1) : TypedArgs[i] \in fs /\ ~IsValue(i)}

ValueOfLast(fs) ==
    IF GivenWithValue(fs) = {} THEN None
    ELSE Some(TypedArgs[(CHOOSE i \in GivenWithValue(fs) :
                            \A j \in GivenWithValue(fs) : j <= i) + 1])

\* C9: a line whose first word is ps or list in any letter case parses to
\* ListProcesses, where all is true exactly when -a or --all is given as a
\* flag, user is Some(U) when -u or --user is followed by U, sort_by is
\* Some(F) when -s or --sort is followed by F, in any order, and a flag not
\* given leaves all = false, user = None, sort_by = None.
C9_ListFlags ==
    (ret # NoCall /\ arg.words # <<>> /\ to_lowercase(arg.words[1]) \in {W_ps, W_list}) =>
        /\ ret.cmd = "ListProcesses"
        /\ ret.all = (\E i \in 1..Len(TypedArgs) : TypedArgs[i] \in {F_a, F_all} /\ ~IsValue(i))
        /\ ret.user = ValueOfLast({F_u, F_user})
        /\ ret.sort_by = ValueOfLast({F_s, F_sort})

\* the line of the repository's own test, parsed
C9_Witness ==
    /\ ret # NoCall
    /\ arg.words = <<W_ps, F_a, F_u, V_root, F_sort, V_cpu>>
    /\ ret.cmd = "ListProcesses" /\ ret.all /\ ret.user = Some(V_root) /\ ret.sort_by = Some(V_cpu)

\* ------------------------------------------------ environment: processes
\* what /proc may hold for one process
Healthy ==
    [stat |-> Readable(StatLine(<<"a">>, <<"1", "0", "0">>, <<"5", "0">>,
                                <<"1", "0", "0", "0">>, 22)),
     status |-> Readable(FileText(<< [text |-> S_VmRSS \o <<" ", "5", "1", "2", " ", "k", "B">>] >>)),
     io |-> Readable(FileText(<< [text |-> S_read_bytes \o <<" ", "4", "0", "9", "6">>],
                                 [text |-> S_write_bytes \o <<" ", "8", "1", "9", "2">>] >>))]

ProcessKinds ==
    { Healthy,
      \* a kernel thread: no VmRSS: line, and an io record with one counter
      [Healthy EXCEPT !.status = Readable(FileText(<< [text |-> <<"N", "a", "m", "e", ":", "\t", "a">>] >>)),
                      !.io = Readable(FileText(<< [text |-> S_write_bytes \o <<" ", "3">>] >>))],
      \* another user's process: its io record may not be read
      [Healthy EXCEPT !.io = Unreadable("PermissionDenied")],
      \* a stat line that ends after 11 fields
      [Healthy EXCEPT !.stat = Readable(StatLine(<<"a">>, <<"1">>, <<"1">>, <<"0">>, 11))] }

Pids == 1..NumPids

\* the lines typed at the prompt
TypedLines ==
    { TypedLine(w) : w \in { <<W_ps>>, <<W_monitor>>, <<W_info, <<"1">>>>, <<W_stats>>,
                             <<W_stats, F_refresh, <<"2">>>>, <<W_kill, <<"1">>>>,
                             <<W_help>>, <<W_exit>>} }

Init ==
    /\ pc = "prompt" /\ cmd = NoCommand
    /\ procfs \in [Pids -> ProcessKinds]
    /\ entries = <<>> /\ idx = 1 /\ step = "stat" /\ acc = NoMetrics /\ out = <<>>
    /\ last = NoCall /\ mem = NoCall
    /\ arg = NoCall /\ ret = NoCall

Next ==
    \/ \E line \in TypedLines : DoListProcesses(line)
    \/ \E line \in TypedLines : DoMonitor(line)
    \/ \E line \in TypedLines : DoProcessInfo(line)
    \/ \E line \in TypedLines : DoSystemStats(line)
    \/ \E line \in TypedLines : DoPrintOnly(line)
    \/ \E line \in TypedLines : DoExit(line)
    \/ StatsRefresh
    \/ SkipEntry
    \/ StatStep
    \/ StatusStep
    \/ IoStep
    \/ EndLoop
    \/ Wake
    \/ \E p \in Pids : ProcessExit(p)

Spec == Init /\ [][Next]_vars

\* ---------------------------------------------------- properties: main
\* C1: once the stat record of a pid has been read and parsed,
\* get_process_metrics returns a ProcessMetrics record: a status record
\* that cannot be read gives mem_usage = 0, an io record that cannot be
\* read gives io_read_bytes = 0 and io_write_bytes = 0, and neither makes
\* the call fail.  (last.at is the record at which the call ended.)
C1_BestEffortRecords ==
    last # NoCall =>
        /\ last.at # "stat" => last.res.kind = "ok"
        /\ last.at = "status" => last.res.val.mem_usage = 0
        /\ last.at = "io" =>
              (last.res.val.io_read_bytes = 0 /\ last.res.val.io_write_bytes = 0)

\* C2: no failure in collecting one pid ends a listing pass or the program.
C2_PassNeverAborts ==
    ~(pc = "panicked" /\ cmd.cmd \in {"ListProcesses", "Monitor"})

\* the loop is at the entry of a pid that was enumerated and has exited
AtVanished ==
    /\ InLoop /\ step = "stat" /\ parse_u64(entries[idx]) # -1
    /\ ~Listed(parse_u64(entries[idx]))

\* C5: when the loop reaches a pid that exited after it was enumerated, the
\* call returns Err(NotFound) at the stat record, nothing is printed for the
\* pid, nothing is retried, and the loop moves on to the next entry.
C5_VanishedIsSkipped ==
    [][(AtVanished /\ procfs' = procfs) =>
          /\ last' = [fn |-> "get_process_metrics", pid |-> parse_u64(entries[idx]),
                      at |-> "stat", res |-> Err("NotFound")]
          /\ out' = out /\ entries' = entries
          /\ idx' = idx + 1 /\ step' = "stat" /\ pc' = "collect"]_vars

\* pid 1 was enumerated, had exited when the listing reached it, the call
\* returned Err(NotFound) and the listing is at the next entry
C5_Witness ==
    /\ cmd.cmd = "ListProcesses" /\ pc = "collect"
    /\ entries[1] = <<"1">> /\ ~Listed(1)
    /\ last # NoCall /\ last.pid = 1 /\ last.at = "stat" /\ last.res = Err("NotFound")
    /\ idx = 2 /\ out = <<>>

\* C10: once Monitor is dispatched the program is for ever either in a pass
\* over the enumerated pids or asleep between two passes; the prompt is
\* never reached again and no pass is cut short.
C10_MonitorRunsForEver ==
    cmd.cmd = "Monitor" => pc \in {"collect", "sleep"}

\* the part of C10 the code keeps: the prompt is never reached again
MonitorNeverPrompts ==
    [][cmd.cmd = "Monitor" => (cmd' = cmd /\ pc' \notin {"prompt", "exited"})]_vars

====
